---- MODULE Spec2Model ----
(***************************************************************************)
(* Model of the workload functions of pulse.py (hedgertronic/pulse-throw): *)
(* compute_acute_workload, compute_chronic_workload, compute_acr and their *)
(* helpers _get_workloads_by_date, _get_acute_divisor,                     *)
(* _get_chronic_divisor.                                                   *)
(*                                                                         *)
(* Representation.                                                         *)
(*  - An ISO-8601 date string "YYYY-MM-DD" is the triple <<Y, M, D>> of    *)
(*    its three numeric fields; the triple may name a day that does not    *)
(*    exist (<<2022, 2, 29>>), which date.fromisoformat rejects.           *)
(*  - A datetime.date is its proleptic Gregorian ordinal, as computed by   *)
(*    date.toordinal; date - timedelta(days=n) is ordinal - n and          *)
(*    (a - b).days is the difference of the ordinals.                      *)
(*  - None is the empty sequence <<>>; the empty string, which has no      *)
(*    numeric field, is EmptyString. Both are falsy.                       *)
(*  - A float is the exact rational [num, den] with den > 0; the acute     *)
(*    weights are kept in fortieths (WeightScale).                         *)
(*  - A dict is the sequence of its [key, value] items in insertion order. *)
(*  - The outcome of a call is a record: a returned value or a raised      *)
(*    exception with its message.                                          *)
(***************************************************************************)
EXTENDS Integers, Sequences, FiniteSets, TLC

VARIABLES snapshots, end_date, normalized, timespan, pc, called, result,
          events, tags, flag,
          token, user_id, today, start_date, auth_calls,
          tables, th, log,
          sent, closed, scope

vars == <<snapshots, end_date, normalized, timespan, pc, called, result,
          events, tags, flag,
          token, user_id, today, start_date, auth_calls,
          tables, th, log,
          sent, closed, scope>>

\* the arguments of the filter functions
filterArgs == <<events, tags, flag>>

\* the PulseClient object, the clock, and the start_date argument of a request
clientVars == <<token, user_id, today, start_date, auth_calls>>

\* the module's constant tables, the calls in progress, the calls completed
threadVars == <<tables, th, log>>

\* the HTTP requests the last call dispatched, whether the OAuth2 session is
\* closed, and where the client stands with respect to a with-block
sessionVars == <<sent, closed, scope>>

(***************************************************************************)
(* Bounds of the model.                                                    *)
(***************************************************************************)
\* longest snapshot list passed to a workload function
MaxSnapshots == 2
\* snapshot dates lie on FirstDate .. FirstDate + MaxSnapSpan days
MaxSnapSpan == 2
\* daily workloads are 0 .. MaxWorkload
MaxWorkload == 1
\* explicit end dates start DaysBefore days before FirstDate ...
DaysBefore == 9
\* ... and go on until DaysAfter days after the last snapshot date
DaysAfter == 28
\* largest timespan handed directly to the divisor helpers
MaxTimespan == 60
\* longest record list indexed by _get_workloads_by_date
MaxIndexLen == 3
\* longest event list handed to a filter
MaxEvents == 2
\* days spanned by the dates handed to a request
MaxClientSpan == 1
\* authenticate() calls on one client
MaxAuthCalls == 2
\* calls one caller makes in a row
MaxCalls == 3
\* longest run of consecutive days with the same workload
MaxUniformDays == 29

(***************************************************************************)
(* Module constants of pulse.py.                                           *)
(***************************************************************************)
ACUTE_LENGTH == 9

\* variant: the ramp starts one step higher, at 1.375
AcuteWeightsFromHigher == <<55, 52, 49, 46, 43, 40, 37, 34, 31>>

\* [1.3, 1.225, 1.15, 1.075, 1.0, 0.925, 0.85, 0.775, 0.7] in fortieths
\* (every weight is a multiple of 0.025); the weight for Python index
\* offset is ACUTE_WEIGHTS[offset + 1]
ACUTE_WEIGHTS == <<52, 49, 46, 43, 40, 37, 34, 31, 28>>

\* the unit of ACUTE_WEIGHTS: 1.0 is WeightScale fortieths
WeightScale == 40

CHRONIC_LENGTH == 28

(***************************************************************************)
(* Floats as exact rationals.                                              *)
(***************************************************************************)
Rat(n, d) == [num |-> n, den |-> d]

\* the literal 0.0
Zero == Rat(0, 1)

RatEq(a, b) == a.num * b.den = b.num * a.den

IsZero(a) == a.num = 0

(***************************************************************************)
(* Outcomes of a call.                                                     *)
(***************************************************************************)
NoResult == [status |-> "none", exc |-> "", msg |-> "", value |-> Zero]

Return(v) == [status |-> "return", exc |-> "", msg |-> "", value |-> v]

Raise(e, m) == [status |-> "raise", exc |-> e, msg |-> m, value |-> Zero]

MsgRange == "Start date greater than end date"

\* the message of date.fromisoformat, whichever field is at fault
MsgParse == "Invalid isoformat string"

MsgEmpty == "min() arg is an empty sequence"

MsgNotAuthenticated ==
    "Client is not authenticated. Try calling authenticate()."

MsgNotIterable == "argument of type 'NoneType' is not iterable"

(***************************************************************************)
(* datetime.date: parsing and ordinals.                                    *)
(***************************************************************************)
None == <<>>

\* the string "": not None, no date, and falsy like None
EmptyString == <<0>>

\* other Python values carry their type: str, bool and list
PyStr(s) == <<"str", s>>

PyBool(b) == <<"bool", b>>

PyList(l) == <<"list", l>>

\* isinstance(v, str)
IsStr(v) == v # None /\ v[1] = "str"

\* `if end_date`: the argument is neither None nor ""
Truthy(s) == s # None /\ s # EmptyString

IsLeap(y) == (y % 4 = 0) /\ ((y % 100 # 0) \/ (y % 400 = 0))

DaysInMonth(y, m) ==
    IF m = 2 THEN (IF IsLeap(y) THEN 29 ELSE 28)
    ELSE IF m \in {4, 6, 9, 11} THEN 30 ELSE 31

DaysBeforeYear(y) ==
    LET y1 == y - 1 IN y1 * 365 + (y1 \div 4) - (y1 \div 100) + (y1 \div 400)

RECURSIVE DaysBeforeMonth(_, _)
DaysBeforeMonth(y, m) ==
    IF m = 1 THEN 0 ELSE DaysBeforeMonth(y, m - 1) + DaysInMonth(y, m - 1)

\* date.fromisoformat accepts the string
ValidIso(s) ==
    /\ Len(s) = 3
    /\ s[1] \in 1..9999
    /\ s[2] \in 1..12
    /\ s[3] \in 1..DaysInMonth(s[1], s[2])

\* date.fromisoformat(s) for an accepted string, as an ordinal
fromisoformat(s) == DaysBeforeYear(s[1]) + DaysBeforeMonth(s[1], s[2]) + s[3]

\* the month and the day of the n-th day of year y, counting on from month m
RECURSIVE MonthDay(_, _, _)
MonthDay(y, m, n) ==
    IF n <= DaysInMonth(y, m) THEN <<m, n>>
    ELSE MonthDay(y, m + 1, n - DaysInMonth(y, m))

\* str(d) of the date with ordinal d: the year, the month and the day the
\* ordinal falls in
isoformat(d) ==
    LET y == CHOOSE yy \in (d \div 366 + 1)..(d \div 365 + 1) :
                 DaysBeforeYear(yy) < d /\ d <= DaysBeforeYear(yy + 1)
        md == MonthDay(y, 1, d - DaysBeforeYear(y))
    IN <<y, md[1], md[2]>>

(***************************************************************************)
(* dict[date, float] as the sequence of its items in insertion order.      *)
(***************************************************************************)
Item(k, v) == [key |-> k, value |-> v]

Keys(d) == {d[i].key : i \in 1..Len(d)}

\* variant: a present key keeps its value (d.setdefault(k, v))
DictSetDefault(d, k, v) ==
    IF k \in Keys(d) THEN d ELSE Append(d, Item(k, v))

\* d[k] = v: a new key is appended, a present key keeps its position
DictSet(d, k, v) ==
    IF k \in Keys(d)
    THEN [i \in 1..Len(d) |-> IF d[i].key = k THEN Item(k, v) ELSE d[i]]
    ELSE Append(d, Item(k, v))

\* d.get(k, default)
DictGet(d, k, default) ==
    LET at == {i \in 1..Len(d) : d[i].key = k}
    IN IF at = {} THEN default ELSE d[CHOOSE i \in at : TRUE].value

min(S) == LET T == S IN CHOOSE x \in T : \A y \in T : x <= y

max(S) == LET T == S IN CHOOSE x \in T : \A y \in T : x >= y

(***************************************************************************)
(* Workload helper functions.                                              *)
(***************************************************************************)
\* snapshot["normDailyWorkload" if normalized else "dailyWorkload"]
SnapshotWorkload(snapshot, norm) ==
    IF norm THEN snapshot.normDailyWorkload ELSE snapshot.dailyWorkload

\* date.fromisoformat succeeds on every snapshot["date"]
SnapshotDatesParse(snaps) == \A i \in 1..Len(snaps) : ValidIso(snaps[i].date)

\* the dict comprehension of _get_workloads_by_date over the first n records
RECURSIVE WorkloadsUpTo(_, _, _)
WorkloadsUpTo(snaps, norm, n) ==
    IF n = 0 THEN <<>>
    ELSE LET before == WorkloadsUpTo(snaps, norm, n - 1)
             day == fromisoformat(snaps[n].date)
         IN DictSet(before, day, SnapshotWorkload(snaps[n], norm))

_get_workloads_by_date(snaps, norm) == WorkloadsUpTo(snaps, norm, Len(snaps))

\* variant: no offset below the cap (0 for a span of 0 days)
AcuteDivisorNoOffset(span) == IF span >= 6 THEN ACUTE_LENGTH ELSE span

\* variant: the cap is reached one day early
AcuteDivisorEarlyCap(span) == IF span >= 5 THEN ACUTE_LENGTH ELSE span + 3

_get_acute_divisor(span) == IF span >= 6 THEN ACUTE_LENGTH ELSE span + 3

\* variant: the chronic divisor grows from the acute offset
ChronicDivisorAcuteOffset(span) ==
    IF span >= 23 THEN CHRONIC_LENGTH ELSE span + 3

_get_chronic_divisor(span) == IF span >= 23 THEN CHRONIC_LENGTH ELSE span + 5

(***************************************************************************)
(* Workload functions.                                                     *)
(***************************************************************************)
\* variant: a day without a snapshot counts as 1.0
WorkloadOnDefaultOne(workloads, day) == DictGet(workloads, day, 1)

\* workloads.get(day, 0.0)
WorkloadOn(workloads, day) == DictGet(workloads, day, 0)

\* variant: the default reference date is the earliest snapshot date
ReferenceDateEarliest(workloads, endStr) ==
    IF Truthy(endStr) THEN fromisoformat(endStr) ELSE min(Keys(workloads))

\* end = date.fromisoformat(end_date) if end_date else max(workloads.keys())
ReferenceDate(workloads, endStr) ==
    IF Truthy(endStr) THEN fromisoformat(endStr) ELSE max(Keys(workloads))

\* variant: start == end is rejected too
StartNotBeforeEnd(start, end) == start >= end

\* variant: the comparison is turned around
StartBeforeEnd(start, end) == start < end

\* variant: the range check is missing
StartNeverAfterEnd(start, end) == FALSE

\* if start > end: raise ValueError
StartAfterEnd(start, end) == start > end

\* variant: the weights are applied oldest day first
RECURSIVE AcuteSumReversed(_, _, _)
AcuteSumReversed(workloads, end, n) ==
    IF n = 0 THEN 0
    ELSE AcuteSumReversed(workloads, end, n - 1)
         + DictGet(workloads, end - (n - 1), 0) * ACUTE_WEIGHTS[ACUTE_LENGTH + 1 - n]

\* sum(workloads.get(end - timedelta(days=offset), 0.0) * ACUTE_WEIGHTS[offset]
\*     for offset in range(n)), in fortieths
RECURSIVE AcuteSum(_, _, _)
AcuteSum(workloads, end, n) ==
    IF n = 0 THEN 0
    ELSE AcuteSum(workloads, end, n - 1)
         + WorkloadOn(workloads, end - (n - 1)) * ACUTE_WEIGHTS[n]

\* variant: the window covers only the days before the acute window
RECURSIVE ChronicSumBeyondAcute(_, _, _)
ChronicSumBeyondAcute(workloads, end, n) ==
    IF n <= ACUTE_LENGTH THEN 0
    ELSE ChronicSumBeyondAcute(workloads, end, n - 1)
         + DictGet(workloads, end - (n - 1), 0)

\* variant: the window starts the day before end
RECURSIVE ChronicSumShifted(_, _, _)
ChronicSumShifted(workloads, end, n) ==
    IF n = 0 THEN 0
    ELSE ChronicSumShifted(workloads, end, n - 1) + DictGet(workloads, end - n, 0)

\* sum(workloads.get(end - timedelta(days=offset), 0.0) for offset in range(n))
RECURSIVE ChronicSum(_, _, _)
ChronicSum(workloads, end, n) ==
    IF n = 0 THEN 0
    ELSE ChronicSum(workloads, end, n - 1) + WorkloadOn(workloads, end - (n - 1))

compute_acute_workload(snaps, endStr, norm) ==
    IF ~SnapshotDatesParse(snaps) THEN Raise("ValueError", MsgParse)
    ELSE LET workloads == _get_workloads_by_date(snaps, norm) IN
      IF Keys(workloads) = {} THEN Raise("ValueError", MsgEmpty)
      ELSE IF Truthy(endStr) /\ ~ValidIso(endStr) THEN Raise("ValueError", MsgParse)
      ELSE LET start == min(Keys(workloads))
               end == ReferenceDate(workloads, endStr)
           IN IF StartAfterEnd(start, end) THEN Raise("ValueError", MsgRange)
              ELSE Return(Rat(AcuteSum(workloads, end, ACUTE_LENGTH),
                              WeightScale * _get_acute_divisor(end - start)))

compute_chronic_workload(snaps, endStr, norm) ==
    IF ~SnapshotDatesParse(snaps) THEN Raise("ValueError", MsgParse)
    ELSE LET workloads == _get_workloads_by_date(snaps, norm) IN
      IF Keys(workloads) = {} THEN Raise("ValueError", MsgEmpty)
      ELSE IF Truthy(endStr) /\ ~ValidIso(endStr) THEN Raise("ValueError", MsgParse)
      ELSE LET start == min(Keys(workloads))
               end == ReferenceDate(workloads, endStr)
           IN IF StartAfterEnd(start, end) THEN Raise("ValueError", MsgRange)
              ELSE Return(Rat(ChronicSum(workloads, end, CHRONIC_LENGTH),
                              _get_chronic_divisor(end - start)))

\* variant: the quotient is turned around
RatioInverted(acute, chronic) ==
    Rat(chronic.num * acute.den, chronic.den * acute.num)

\* acute_workload / chronic_workload
Ratio(acute, chronic) == Rat(acute.num * chronic.den, acute.den * chronic.num)

\* variant: an empty history is answered with 0.0
AcrEmptyIsZero(snaps, endStr, norm) ==
    IF snaps = <<>> THEN Return(Zero) ELSE
    LET chronic == compute_chronic_workload(snaps, endStr, norm) IN
    IF chronic.status = "raise" THEN chronic
    ELSE IF IsZero(chronic.value) THEN Return(Zero)
    ELSE LET acute == compute_acute_workload(snaps, endStr, norm) IN
         IF acute.status = "raise" THEN acute
         ELSE Return(Ratio(acute.value, chronic.value))

compute_acr(snaps, endStr, norm) ==
    LET chronic == compute_chronic_workload(snaps, endStr, norm) IN
    IF chronic.status = "raise" THEN chronic
    ELSE IF IsZero(chronic.value) THEN Return(Zero)
    ELSE LET acute == compute_acute_workload(snaps, endStr, norm) IN
         IF acute.status = "raise" THEN acute
         ELSE Return(Ratio(acute.value, chronic.value))

(***************************************************************************)
(* PulseClient helper methods.                                             *)
(***************************************************************************)
\* timedelta(days=8)
DEFAULT_DAYS == 8

\* variant: the default start is the end date itself
DefaultStartSameDay(end) == end

\* end - timedelta(days=8)
DefaultStart(end) == end - DEFAULT_DAYS

\* variant: the dates are returned without comparing them
FormatDatesUnchecked(startStr, endStr, now) ==
    IF Truthy(endStr) /\ ~ValidIso(endStr) THEN Raise("ValueError", MsgParse)
    ELSE LET end == IF Truthy(endStr) THEN fromisoformat(endStr) ELSE now IN
         IF Truthy(startStr) /\ ~ValidIso(startStr)
         THEN Raise("ValueError", MsgParse)
         ELSE LET start == IF Truthy(startStr) THEN fromisoformat(startStr)
                           ELSE DefaultStart(end)
              IN Return(<<isoformat(start), isoformat(end)>>)

\* PulseClient._format_dates, with date.today() = now
_format_dates(startStr, endStr, now) ==
    IF Truthy(endStr) /\ ~ValidIso(endStr) THEN Raise("ValueError", MsgParse)
    ELSE LET end == IF Truthy(endStr) THEN fromisoformat(endStr) ELSE now IN
         IF Truthy(startStr) /\ ~ValidIso(startStr)
         THEN Raise("ValueError", MsgParse)
         ELSE LET start == IF Truthy(startStr) THEN fromisoformat(startStr)
                           ELSE DefaultStart(end)
              IN IF start > end THEN Raise("ValueError", MsgRange)
                 ELSE Return(<<isoformat(start), isoformat(end)>>)

\* PulseClient._format_user_ids for user_ids=None
_format_user_ids(uid) == <<uid>>

\* PulseClient._format_payload for user_ids=None: the payload, or the error of
\* _format_dates
_format_payload(startStr, endStr, uid, now) ==
    LET dates == _format_dates(startStr, endStr, now) IN
    IF dates.status = "raise" THEN dates
    ELSE Return([pulseUserIds |-> _format_user_ids(uid),
                 startDate |-> dates.value[1],
                 endDate |-> dates.value[2]])

\* the session's token as fetched: it carries the owner's user_id, or none
Token(uid) == <<"token", uid>>

\* str(token.get("user_id"))
TokenUserId(tok) == IF tok[2] = None THEN "None" ELSE tok[2][2]

\* variant: a session without token sends the request all the same
MakeRequestNoTokenCheck(tok, response) ==
    IF response = "error" THEN Raise("HTTPError", "")
    ELSE Return(response)

\* PulseClient._make_request on a session holding tok, the server answering
\* with response: OAuth2Session.request raises MissingTokenError without a
\* token, raise_for_status raises on an error status
_make_request(tok, response) ==
    IF tok = None THEN Raise("MissingTokenError", MsgNotAuthenticated)
    ELSE IF response = "error" THEN Raise("HTTPError", "")
    ELSE Return(response)

(***************************************************************************)
(* Filter functions. An event is a record of its fields; a field the dict  *)
(* does not have is Absent.                                                *)
(***************************************************************************)
Absent == <<"absent">>

\* event.get(field): None for a missing key
EventGet(event, field) ==
    IF event[field] = Absent THEN None ELSE event[field]

\* x in l, for a list l
In(x, l) == \E i \in 1..Len(l[2]) : l[2][i] = x

\* variant: an event without the "tag" key is never selected (event["tag"])
FilterByTagKeyed(evs, tgs, blacklist) ==
    LET t == IF IsStr(tgs) THEN PyList(<<tgs>>) ELSE tgs
        Match(e) == e.tag # Absent /\ In(EventGet(e, "tag"), t)
        NoMatch(e) == e.tag # Absent /\ ~In(EventGet(e, "tag"), t)
    IN IF t = None /\ evs # <<>> THEN Raise("TypeError", MsgNotIterable)
       ELSE IF ~blacklist THEN Return(SelectSeq(evs, Match))
       ELSE Return(SelectSeq(evs, NoMatch))

\* a str is wrapped into a list; `in None` raises TypeError at the first
\* event
filter_by_tag(evs, tgs, blacklist) ==
    LET t == IF IsStr(tgs) THEN PyList(<<tgs>>) ELSE tgs
        Match(e) == In(EventGet(e, "tag"), t)
        NoMatch(e) == ~In(EventGet(e, "tag"), t)
    IN IF t = None /\ evs # <<>> THEN Raise("TypeError", MsgNotIterable)
       ELSE IF ~blacklist THEN Return(SelectSeq(evs, Match))
       ELSE Return(SelectSeq(evs, NoMatch))

\* variant: the flag is compared by truth value (bool(x) == get_simulated)
FilterSimulatedTruthy(evs, get_simulated) ==
    LET Match(e) == (EventGet(e, "simulated") = PyBool(TRUE)) = get_simulated
    IN Return(SelectSeq(evs, Match))

\* event.get("simulated") is get_simulated
filter_simulated(evs, get_simulated) ==
    LET Match(e) == EventGet(e, "simulated") = PyBool(get_simulated)
    IN Return(SelectSeq(evs, Match))

\* event.get("highEffort") is get_high_effort
filter_high_effort(evs, get_high_effort) ==
    LET Match(e) == EventGet(e, "highEffort") = PyBool(get_high_effort)
    IN Return(SelectSeq(evs, Match))

\* sum(event["normalizedWorkload" if normalized else "workload"] ...) of the
\* first n events
RECURSIVE SumUpTo(_, _, _)
SumUpTo(evs, norm, n) ==
    IF n = 0 THEN 0
    ELSE SumUpTo(evs, norm, n - 1)
         + (IF norm THEN evs[n].normalizedWorkload ELSE evs[n].workload)

sum_workload(evs, norm) == Return(Rat(SumUpTo(evs, norm, Len(evs)), 1))

(***************************************************************************)
(* Calls in progress. The module-level names ACUTE_LENGTH, ACUTE_WEIGHTS   *)
(* and CHRONIC_LENGTH are objects every call reads; every call keeps its   *)
(* arguments and locals in a frame of its own.                             *)
(***************************************************************************)
Tables ==
    [ACUTE_LENGTH |-> ACUTE_LENGTH,
     ACUTE_WEIGHTS |-> ACUTE_WEIGHTS,
     CHRONIC_LENGTH |-> CHRONIC_LENGTH]

Threads == {1, 2}

\* the frame of a caller that has calls left to make
Frame(calls) ==
    [pc |-> "idle", fn |-> "", end_date |-> None, flag |-> FALSE,
     phase |-> "", i |-> 0, acc |-> 0, workloads |-> <<>>,
     start |-> 0, end |-> 0, chronic |-> Zero, out |-> <<>>,
     result |-> NoResult, overlapped |-> FALSE, calls |-> calls]

NoCalls == [t \in Threads |-> Frame(0)]

(***************************************************************************)
(* Inputs of the model.                                                    *)
(***************************************************************************)
\* the first day a snapshot may carry; the snapshot days run over the end
\* of February
FirstDate == <<2022, 2, 27>>

\* a string that date.fromisoformat rejects: 2022 is not a leap year
BadDate == <<2022, 2, 29>>

IsoStrings == {<<FirstDate[1], m, d>> : m \in 1..12, d \in 1..31}

\* the ISO strings of the days lo .. hi
DatesBetween(lo, hi) ==
    {s \in IsoStrings : ValidIso(s) /\ fromisoformat(s) \in lo..hi}

\* the ISO strings of the days a snapshot may carry
SnapshotDates ==
    DatesBetween(fromisoformat(FirstDate), fromisoformat(FirstDate) + MaxSnapSpan)

EndDates ==
    DatesBetween(fromisoformat(FirstDate) - DaysBefore,
                 fromisoformat(FirstDate) + MaxSnapSpan + DaysAfter)
    \cup {BadDate, None, EmptyString}

\* a record of the get_snapshots endpoint: the normalized workload is the
\* daily workload scaled by the athlete's calibration (here: doubled), so
\* the two fields differ whenever there was any throwing
SnapshotOf(s, w) ==
    [date |-> s, dailyWorkload |-> w, normDailyWorkload |-> w + w]

SnapshotRecords ==
    {SnapshotOf(s, w) : s \in SnapshotDates, w \in 0..MaxWorkload}
    \cup {SnapshotOf(BadDate, 0)}

\* one record per calendar date (a user's snapshots are one entry per day),
\* in any order
DistinctDates(snaps) ==
    \A i, j \in 1..Len(snaps) : i # j => snaps[i].date # snaps[j].date

SnapshotLists ==
    UNION {{snaps \in [1..n -> SnapshotRecords] : DistinctDates(snaps)} :
             n \in 0..MaxSnapshots}

(***************************************************************************)
(* The state machine: a caller holds the arguments of a call (Init), calls *)
(* one of the functions on them, and holds its outcome.                    *)
(***************************************************************************)
\* the caller holds no timespan
NoTimespan == 0 - 1

Init ==
    /\ pc = "ready"
    /\ called = ""
    /\ result = NoResult
    /\ events = <<>>
    /\ tags = None
    /\ flag = FALSE
    /\ token = None
    /\ user_id = ""
    /\ today = fromisoformat(FirstDate)
    /\ start_date = None
    /\ auth_calls = 0
    /\ tables = Tables
    /\ th = NoCalls
    /\ log = <<>>
    /\ sent = <<>>
    /\ closed = FALSE
    /\ scope = "none"
    /\ \/ /\ snapshots \in SnapshotLists
          /\ end_date \in EndDates
          /\ normalized \in BOOLEAN
          /\ timespan = NoTimespan
       \/ /\ snapshots = <<>>
          /\ end_date = None
          /\ normalized = TRUE
          /\ timespan \in 0..MaxTimespan

ComputeAcuteWorkload ==
    /\ pc = "ready"
    /\ pc' = "done"
    /\ called' = "compute_acute_workload"
    /\ result' = compute_acute_workload(snapshots, end_date, normalized)
    /\ UNCHANGED <<snapshots, end_date, normalized, timespan, filterArgs, clientVars,
                   threadVars,
                   sessionVars>>

ComputeChronicWorkload ==
    /\ pc = "ready"
    /\ pc' = "done"
    /\ called' = "compute_chronic_workload"
    /\ result' = compute_chronic_workload(snapshots, end_date, normalized)
    /\ UNCHANGED <<snapshots, end_date, normalized, timespan, filterArgs, clientVars,
                   threadVars,
                   sessionVars>>

ComputeAcr ==
    /\ pc = "ready"
    /\ pc' = "done"
    /\ called' = "compute_acr"
    /\ result' = compute_acr(snapshots, end_date, normalized)
    /\ UNCHANGED <<snapshots, end_date, normalized, timespan, filterArgs, clientVars,
                   threadVars,
                   sessionVars>>

GetAcuteDivisor ==
    /\ pc = "ready"
    /\ timespan # NoTimespan
    /\ pc' = "done"
    /\ called' = "_get_acute_divisor"
    /\ result' = Return(Rat(_get_acute_divisor(timespan), 1))
    /\ UNCHANGED <<snapshots, end_date, normalized, timespan, filterArgs, clientVars,
                   threadVars,
                   sessionVars>>

GetChronicDivisor ==
    /\ pc = "ready"
    /\ timespan # NoTimespan
    /\ pc' = "done"
    /\ called' = "_get_chronic_divisor"
    /\ result' = Return(Rat(_get_chronic_divisor(timespan), 1))
    /\ UNCHANGED <<snapshots, end_date, normalized, timespan, filterArgs, clientVars,
                   threadVars,
                   sessionVars>>

Next ==
    \/ ComputeAcuteWorkload
    \/ ComputeChronicWorkload
    \/ ComputeAcr
    \/ GetAcuteDivisor
    \/ GetChronicDivisor

Spec == Init /\ [][Next]_vars

(***************************************************************************)
(* _get_workloads_by_date called on its own: any list of records, dates    *)
(* repeated or not.                                                        *)
(***************************************************************************)
IndexLists == UNION {[1..n -> SnapshotRecords] : n \in 0..MaxIndexLen}

InitIndex ==
    /\ pc = "ready"
    /\ called = ""
    /\ result = NoResult
    /\ events = <<>>
    /\ tags = None
    /\ flag = FALSE
    /\ token = None
    /\ user_id = ""
    /\ today = fromisoformat(FirstDate)
    /\ start_date = None
    /\ auth_calls = 0
    /\ tables = Tables
    /\ th = NoCalls
    /\ log = <<>>
    /\ sent = <<>>
    /\ closed = FALSE
    /\ scope = "none"
    /\ snapshots \in IndexLists
    /\ end_date = None
    /\ normalized \in BOOLEAN
    /\ timespan = NoTimespan

GetWorkloadsByDate ==
    /\ pc = "ready"
    /\ pc' = "done"
    /\ called' = "_get_workloads_by_date"
    /\ result' = IF SnapshotDatesParse(snapshots)
                 THEN Return(_get_workloads_by_date(snapshots, normalized))
                 ELSE Raise("ValueError", MsgParse)
    /\ UNCHANGED <<snapshots, end_date, normalized, timespan, filterArgs, clientVars,
                   threadVars,
                   sessionVars>>

NextIndex == GetWorkloadsByDate

SpecIndex == InitIndex /\ [][NextIndex]_vars

(***************************************************************************)
(* The workload functions called on a history of consecutive days with the *)
(* same workload on every day.                                             *)
(***************************************************************************)
\* days records, one per day from FirstDate on, each with daily workload c
UniformHistory(days, c) ==
    [i \in 1..days |-> SnapshotOf(isoformat(fromisoformat(FirstDate) + i - 1), c)]

InitUniform ==
    /\ pc = "ready"
    /\ called = ""
    /\ result = NoResult
    /\ events = <<>>
    /\ tags = None
    /\ flag = FALSE
    /\ token = None
    /\ user_id = ""
    /\ today = fromisoformat(FirstDate)
    /\ start_date = None
    /\ auth_calls = 0
    /\ tables = Tables
    /\ th = NoCalls
    /\ log = <<>>
    /\ sent = <<>>
    /\ closed = FALSE
    /\ scope = "none"
    /\ normalized \in BOOLEAN
    /\ timespan = NoTimespan
    /\ \E days \in 1..MaxUniformDays, c \in 1..MaxWorkload :
          /\ snapshots = UniformHistory(days, c)
          /\ end_date \in {None, snapshots[days].date}

NextUniform ==
    \/ ComputeAcuteWorkload
    \/ ComputeChronicWorkload
    \/ ComputeAcr

SpecUniform == InitUniform /\ [][NextUniform]_vars

(***************************************************************************)
(* compute_acute_workload and compute_chronic_workload called with an      *)
(* explicit end_date on a non-empty history whose dates all parse.         *)
(***************************************************************************)
InitExplicitEnd ==
    /\ pc = "ready"
    /\ called = ""
    /\ result = NoResult
    /\ events = <<>>
    /\ tags = None
    /\ flag = FALSE
    /\ token = None
    /\ user_id = ""
    /\ today = fromisoformat(FirstDate)
    /\ start_date = None
    /\ auth_calls = 0
    /\ tables = Tables
    /\ th = NoCalls
    /\ log = <<>>
    /\ sent = <<>>
    /\ closed = FALSE
    /\ scope = "none"
    /\ snapshots \in {snaps \in SnapshotLists :
                        snaps # <<>> /\ SnapshotDatesParse(snaps)}
    /\ end_date \in {e \in EndDates : Truthy(e) /\ ValidIso(e)}
    /\ normalized \in BOOLEAN
    /\ timespan = NoTimespan

NextExplicitEnd ==
    \/ ComputeAcuteWorkload
    \/ ComputeChronicWorkload

SpecExplicitEnd == InitExplicitEnd /\ [][NextExplicitEnd]_vars

(***************************************************************************)
(* The filter functions called on an event list.                           *)
(***************************************************************************)
TagNames == {"Pre-Game", "Plyo"}

TagFields == {Absent, None} \cup {PyStr(n) : n \in TagNames}

FlagFields == {Absent, None, PyBool(TRUE), PyBool(FALSE)}

\* the events of one outing differ in tag and in simulated; highEffort is
\* set so that it never agrees with simulated
HighEffortOf(sim) ==
    IF sim = PyBool(TRUE) THEN None
    ELSE IF sim = PyBool(FALSE) THEN Absent
    ELSE IF sim = None THEN PyBool(FALSE)
    ELSE PyBool(TRUE)

EventOf(t, sim) ==
    [tag |-> t, simulated |-> sim, highEffort |-> HighEffortOf(sim),
     workload |-> 1, normalizedWorkload |-> 2]

Events == {EventOf(t, sim) : t \in TagFields, sim \in FlagFields}

EventLists == UNION {[1..n -> Events] : n \in 0..MaxEvents}

\* the tags argument: None, one tag, or a list of tags (None among them)
TagArgs ==
    {None} \cup {PyStr(n) : n \in TagNames}
    \cup {PyList(l) : l \in {<<>>, <<None>>, <<PyStr("Plyo")>>,
                             <<PyStr("Plyo"), PyStr("Pre-Game")>>,
                             <<PyStr("Plyo"), None>>}}

InitFilter ==
    /\ pc = "ready"
    /\ called = ""
    /\ result = NoResult
    /\ snapshots = <<>>
    /\ end_date = None
    /\ normalized = TRUE
    /\ timespan = NoTimespan
    /\ events \in EventLists
    /\ tags \in TagArgs
    /\ flag \in BOOLEAN
    /\ token = None
    /\ user_id = ""
    /\ today = fromisoformat(FirstDate)
    /\ start_date = None
    /\ auth_calls = 0
    /\ tables = Tables
    /\ th = NoCalls
    /\ log = <<>>
    /\ sent = <<>>
    /\ closed = FALSE
    /\ scope = "none"

\* filter_by_tag(events, tags, blacklist=flag)
FilterByTag ==
    /\ pc = "ready"
    /\ pc' = "done"
    /\ called' = "filter_by_tag"
    /\ result' = filter_by_tag(events, tags, flag)
    /\ UNCHANGED <<snapshots, end_date, normalized, timespan, filterArgs, clientVars,
                   threadVars,
                   sessionVars>>

\* filter_simulated(events, get_simulated=flag)
FilterSimulated ==
    /\ pc = "ready"
    /\ pc' = "done"
    /\ called' = "filter_simulated"
    /\ result' = filter_simulated(events, flag)
    /\ UNCHANGED <<snapshots, end_date, normalized, timespan, filterArgs, clientVars,
                   threadVars,
                   sessionVars>>

\* filter_high_effort(events, get_high_effort=flag)
FilterHighEffort ==
    /\ pc = "ready"
    /\ pc' = "done"
    /\ called' = "filter_high_effort"
    /\ result' = filter_high_effort(events, flag)
    /\ UNCHANGED <<snapshots, end_date, normalized, timespan, filterArgs, clientVars,
                   threadVars,
                   sessionVars>>

NextFilter ==
    \/ FilterByTag
    \/ FilterSimulated
    \/ FilterHighEffort

SpecFilter == InitFilter /\ [][NextFilter]_vars

\* variant: every authenticate() takes the user_id of the new token
UserIdOfLatestToken(uid, tok) == TokenUserId(tok)

\* authenticate(), after fetch_token stored tok: the user_id is taken from
\* the token only if the client has none yet
UserIdAfterFetch(uid, tok) == IF uid = "" THEN TokenUserId(tok) ELSE uid

\* variant: a client counts as authenticated from its construction
IsAuthenticatedAlways(tok) == TRUE

\* PulseClient.is_authenticated on a session holding tok
is_authenticated(tok) == tok # None

\* PulseClient.__str__, the f-string as its three parts
__str__(uid) ==
    <<"PulseClient(", IF uid # "" THEN uid ELSE "<Unauthenticated>", ")">>

\* the HTTP requests OAuth2Session.request sends for one call of
\* _make_request on a session holding tok: none without a token
SessionRequest(tok, slug, json) ==
    IF tok = None THEN <<>> ELSE <<[url_slug |-> slug, json |-> json]>>

(***************************************************************************)
(* A PulseClient: constructed with or without a first authenticate(), then *)
(* used for any sequence of authenticate() calls and requests. start_date  *)
(* and end_date hold the arguments of the last request with dates.         *)
(***************************************************************************)
ClientDates ==
    DatesBetween(fromisoformat(FirstDate),
                 fromisoformat(FirstDate) + MaxClientSpan)
    \cup {BadDate, None, EmptyString}

\* date.today() during the client's life
Todays ==
    {fromisoformat(FirstDate), fromisoformat(FirstDate) + MaxClientSpan + 1}

\* the server's answer to a request: its data, or an error status
Responses == {"data", "error"}

\* the tokens the token endpoint may hand out
Tokens == {Token(None), Token(PyStr("u1"))}

InitClient ==
    /\ pc = "ready"
    /\ called = ""
    /\ result = NoResult
    /\ snapshots = <<>>
    /\ end_date = None
    /\ normalized = TRUE
    /\ timespan = NoTimespan
    /\ events = <<>>
    /\ tags = None
    /\ flag = FALSE
    /\ start_date = None
    /\ today \in Todays
    /\ tables = Tables
    /\ th = NoCalls
    /\ log = <<>>
    /\ sent = <<>>
    /\ closed = FALSE
    /\ scope = "none"
    /\ \/ /\ token = None
          /\ user_id = ""
          /\ auth_calls = 0
       \/ /\ token \in Tokens
          /\ user_id = TokenUserId(token)
          /\ auth_calls = 1

\* authenticate(): fetch_token stores a token or raises and stores none
Authenticate ==
    /\ scope # "deleted"
    /\ auth_calls < MaxAuthCalls
    /\ auth_calls' = auth_calls + 1
    /\ \/ /\ result' = Raise("OAuthError", "")
          /\ UNCHANGED <<token, user_id>>
       \/ \E tok \in Tokens :
             /\ token' = tok
             /\ user_id' = UserIdAfterFetch(user_id, tok)
             /\ result' = Return(None)
    /\ pc' = "done"
    /\ called' = "authenticate"
    /\ sent' = <<>>
    /\ UNCHANGED <<snapshots, end_date, normalized, timespan, filterArgs,
                   today, start_date, threadVars, closed, scope>>

GetProfile ==
    /\ scope # "deleted"
    /\ \E response \in Responses :
          result' = _make_request(token, response)
    /\ sent' = SessionRequest(token, "user/get_profile", None)
    /\ pc' = "done"
    /\ called' = "get_profile"
    /\ UNCHANGED <<snapshots, end_date, normalized, timespan, filterArgs,
                   clientVars, threadVars, closed, scope>>

GetTeam ==
    /\ scope # "deleted"
    /\ \E response \in Responses :
          result' = _make_request(token, response)
    /\ sent' = SessionRequest(token, "user/get_team", None)
    /\ pc' = "done"
    /\ called' = "get_team"
    /\ UNCHANGED <<snapshots, end_date, normalized, timespan, filterArgs,
                   clientVars, threadVars, closed, scope>>

GetSnapshots ==
    /\ scope # "deleted"
    /\ \E s \in ClientDates, e \in ClientDates :
          /\ start_date' = s
          /\ end_date' = e
          /\ LET payload == _format_payload(s, e, user_id, today)
             IN IF payload.status = "raise"
                THEN /\ result' = payload
                     /\ sent' = <<>>
                ELSE /\ \E response \in Responses :
                           result' = _make_request(token, response)
                     /\ sent' = SessionRequest(token, "user/get_snapshots",
                                               payload.value)
    /\ pc' = "done"
    /\ called' = "get_snapshots"
    /\ UNCHANGED <<snapshots, normalized, timespan, filterArgs,
                   token, user_id, today, auth_calls, threadVars,
                   closed, scope>>

GetEvents ==
    /\ scope # "deleted"
    /\ \E s \in ClientDates, e \in ClientDates :
          /\ start_date' = s
          /\ end_date' = e
          /\ LET payload == _format_payload(s, e, user_id, today)
             IN IF payload.status = "raise"
                THEN /\ result' = payload
                     /\ sent' = <<>>
                ELSE /\ \E response \in Responses :
                           result' = _make_request(token, response)
                     /\ sent' = SessionRequest(token, "user/get_events",
                                               payload.value)
    /\ pc' = "done"
    /\ called' = "get_events"
    /\ UNCHANGED <<snapshots, normalized, timespan, filterArgs,
                   token, user_id, today, auth_calls, threadVars,
                   closed, scope>>

FormatDates ==
    /\ scope # "deleted"
    /\ \E s \in ClientDates, e \in ClientDates :
          /\ start_date' = s
          /\ end_date' = e
          /\ result' = _format_dates(s, e, today)
    /\ sent' = <<>>
    /\ pc' = "done"
    /\ called' = "_format_dates"
    /\ UNCHANGED <<snapshots, normalized, timespan, filterArgs,
                   token, user_id, today, auth_calls, threadVars,
                   closed, scope>>

\* is_authenticated()
IsAuthenticated ==
    /\ scope # "deleted"
    /\ result' = Return(PyBool(is_authenticated(token)))
    /\ sent' = <<>>
    /\ pc' = "done"
    /\ called' = "is_authenticated"
    /\ UNCHANGED <<snapshots, end_date, normalized, timespan, filterArgs,
                   clientVars, threadVars, closed, scope>>

\* str(client)
Str ==
    /\ scope # "deleted"
    /\ result' = Return(__str__(user_id))
    /\ sent' = <<>>
    /\ pc' = "done"
    /\ called' = "__str__"
    /\ UNCHANGED <<snapshots, end_date, normalized, timespan, filterArgs,
                   clientVars, threadVars, closed, scope>>

NextClient ==
    \/ Authenticate
    \/ GetProfile
    \/ GetTeam
    \/ GetSnapshots
    \/ GetEvents
    \/ FormatDates
    \/ IsAuthenticated
    \/ Str

SpecClient == InitClient /\ [][NextClient]_vars

(***************************************************************************)
(* A PulseClient used as a context manager. scope is "none" before any     *)
(* with-block, "with" inside one, "left" after a block that ended normally *)
(* and "raised" after one that ended with an exception; in all three a     *)
(* name of the caller still refers to the client. It is "deleted" once the *)
(* last reference is gone and the interpreter has run __del__, which may   *)
(* happen at any time outside a with-block.                                *)
(***************************************************************************)
\* how a with-block may end: normally, or with an exception
BlockEnds == {"left", "raised"}

\* __enter__: returns the client itself
Enter ==
    /\ scope \in {"none"} \cup BlockEnds
    /\ scope' = "with"
    /\ result' = Return(None)
    /\ sent' = <<>>
    /\ pc' = "done"
    /\ called' = "__enter__"
    /\ UNCHANGED <<snapshots, end_date, normalized, timespan, filterArgs,
                   clientVars, threadVars, closed>>

\* __exit__: `del self` unbinds the method's own name for the client and
\* nothing else; the exception arguments are ignored and None is returned
Exit ==
    /\ scope = "with"
    /\ scope' \in BlockEnds
    /\ result' = Return(None)
    /\ sent' = <<>>
    /\ pc' = "done"
    /\ called' = "__exit__"
    /\ UNCHANGED <<snapshots, end_date, normalized, timespan, filterArgs,
                   clientVars, threadVars, closed>>

\* __del__, run when the last reference to the client is dropped:
\* session.close()
Del ==
    /\ scope \in {"none"} \cup BlockEnds
    /\ scope' = "deleted"
    /\ closed' = TRUE
    /\ result' = Return(None)
    /\ sent' = <<>>
    /\ pc' = "done"
    /\ called' = "__del__"
    /\ UNCHANGED <<snapshots, end_date, normalized, timespan, filterArgs,
                   clientVars, threadVars>>

NextWith ==
    \/ Authenticate
    \/ GetProfile
    \/ GetTeam
    \/ IsAuthenticated
    \/ Str
    \/ Enter
    \/ Exit
    \/ Del

SpecWith == InitClient /\ [][NextWith]_vars

(***************************************************************************)
(* The core functions called from one or several threads. A call runs in   *)
(* steps; a step reads at most one shared object (an element of the input  *)
(* list, a constant table), everything else it touches is in its frame.    *)
(* snapshots, events and tags are the objects the callers pass in.         *)
(***************************************************************************)
ComputeFns == {"compute_acute_workload", "compute_chronic_workload", "compute_acr"}

FilterFns == {"filter_by_tag", "filter_simulated", "filter_high_effort"}

CoreFns == ComputeFns \cup FilterFns \cup {"sum_workload"}

\* the snapshot lists the callers share: empty, a day without throwing, the
\* day after, two days
InputSnapshots ==
    {<<>>,
     <<SnapshotOf(FirstDate, 0)>>,
     <<SnapshotOf(isoformat(fromisoformat(FirstDate) + 1), 1)>>,
     <<SnapshotOf(isoformat(fromisoformat(FirstDate) + 1), 1),
       SnapshotOf(FirstDate, 1)>>}

\* the event list the callers share
InputEvents ==
    {<<EventOf(PyStr("Plyo"), PyBool(TRUE)), EventOf(Absent, PyBool(FALSE))>>}

\* the calls a thread may make: the function, its end_date and its boolean
\* argument (normalized, blacklist, get_simulated, get_high_effort)
Calls ==
    {[fn |-> fn, end_date |-> e, flag |-> TRUE] :
        fn \in ComputeFns, e \in {None, FirstDate}}
    \cup {[fn |-> fn, end_date |-> None, flag |-> b] :
            fn \in FilterFns \cup {"sum_workload"}, b \in BOOLEAN}

InitShared ==
    /\ pc = "ready"
    /\ called = ""
    /\ result = NoResult
    /\ snapshots \in InputSnapshots
    /\ end_date = None
    /\ normalized = TRUE
    /\ timespan = NoTimespan
    /\ events \in InputEvents
    /\ tags = PyList(<<PyStr("Plyo"), None>>)
    /\ flag = FALSE
    /\ token = None
    /\ user_id = ""
    /\ today = fromisoformat(FirstDate)
    /\ start_date = None
    /\ auth_calls = 0
    /\ tables = Tables
    /\ log = <<>>
    /\ sent = <<>>
    /\ closed = FALSE
    /\ scope = "none"

\* every thread makes one call
InitThreads == InitShared /\ th = [t \in Threads |-> Frame(1)]

\* a single caller makes one call after the other
InitCalls ==
    InitShared /\ th = [t \in Threads |-> Frame(IF t = 1 THEN MaxCalls ELSE 0)]

\* the thread is inside a call
Busy(t) == th[t].pc \notin {"idle", "done"}

\* the frame of thread t once its call has ended with outcome r
Done(t, r) ==
    [th[t] EXCEPT !.pc = "done", !.result = r,
                  !.overlapped = \E u \in Threads \ {t} : Busy(u)]

\* the record of a completed call
Entry(f) ==
    [fn |-> f.fn, end_date |-> f.end_date, flag |-> f.flag, result |-> f.result]

Logged(f) == IF f.pc = "done" THEN Append(log, Entry(f)) ELSE log

\* the call is made: its arguments are bound in a fresh frame
Start(t) ==
    /\ ~Busy(t)
    /\ th[t].calls > 0
    /\ \E c \in Calls :
          th' = [th EXCEPT ![t] =
                   [Frame(th[t].calls - 1) EXCEPT
                      !.pc = IF c.fn \in ComputeFns THEN "index" ELSE "scan",
                      !.phase = IF c.fn = "compute_acute_workload"
                                THEN "acute" ELSE "chronic",
                      !.fn = c.fn, !.end_date = c.end_date, !.flag = c.flag]]
    /\ UNCHANGED <<snapshots, end_date, normalized, timespan, pc, called, result,
                   filterArgs, clientVars, tables, log,
                   sessionVars>>

\* _get_workloads_by_date: the next snapshot goes into the map
IndexStep(t) ==
    /\ th[t].pc = "index"
    /\ th[t].i < Len(snapshots)
    /\ LET f == LET snapshot == snapshots[th[t].i + 1] IN
                IF ~ValidIso(snapshot.date)
                THEN Done(t, Raise("ValueError", MsgParse))
                ELSE [th[t] EXCEPT
                        !.workloads = DictSet(@, fromisoformat(snapshot.date),
                                              SnapshotWorkload(snapshot, th[t].flag)),
                        !.i = @ + 1]
       IN /\ th' = [th EXCEPT ![t] = f]
          /\ log' = Logged(f)
    /\ UNCHANGED <<snapshots, end_date, normalized, timespan, pc, called, result,
                   filterArgs, clientVars, tables,
                   sessionVars>>

\* start, end and the range check
BoundsStep(t) ==
    /\ th[t].pc = "index"
    /\ th[t].i = Len(snapshots)
    /\ LET f == IF Keys(th[t].workloads) = {}
                THEN Done(t, Raise("ValueError", MsgEmpty))
                ELSE IF Truthy(th[t].end_date) /\ ~ValidIso(th[t].end_date)
                THEN Done(t, Raise("ValueError", MsgParse))
                ELSE LET start == min(Keys(th[t].workloads))
                         end == ReferenceDate(th[t].workloads, th[t].end_date)
                     IN IF StartAfterEnd(start, end)
                        THEN Done(t, Raise("ValueError", MsgRange))
                        ELSE [th[t] EXCEPT !.pc = "sum", !.start = start,
                                           !.end = end, !.i = 0, !.acc = 0]
       IN /\ th' = [th EXCEPT ![t] = f]
          /\ log' = Logged(f)
    /\ UNCHANGED <<snapshots, end_date, normalized, timespan, pc, called, result,
                   filterArgs, clientVars, tables,
                   sessionVars>>

\* variant: the weights are taken off a shared cursor: the head of the table
\* is read and the table rotated by one
AcuteStepRotates(t) ==
    /\ th[t].pc = "sum"
    /\ th[t].phase = "acute"
    /\ th[t].i < tables.ACUTE_LENGTH
    /\ LET f == [th[t] EXCEPT
                  !.acc = @ + WorkloadOn(th[t].workloads, th[t].end - th[t].i)
                              * Head(tables.ACUTE_WEIGHTS),
                  !.i = @ + 1,
                  !.pc = IF th[t].i + 1 = tables.ACUTE_LENGTH
                         THEN "divide" ELSE "sum"]
       IN /\ th' = [th EXCEPT ![t] = f]
          /\ log' = Logged(f)
    /\ tables' = [tables EXCEPT !.ACUTE_WEIGHTS = Append(Tail(@), Head(@))]
    /\ UNCHANGED <<snapshots, end_date, normalized, timespan, pc, called, result,
                   filterArgs, clientVars,
                   sessionVars>>

\* one term of the weighted sum: ACUTE_WEIGHTS[offset] is read
AcuteStep(t) ==
    /\ th[t].pc = "sum"
    /\ th[t].phase = "acute"
    /\ th[t].i < tables.ACUTE_LENGTH
    /\ LET f == [th[t] EXCEPT
                  !.acc = @ + WorkloadOn(th[t].workloads, th[t].end - th[t].i)
                              * tables.ACUTE_WEIGHTS[th[t].i + 1],
                  !.i = @ + 1,
                  !.pc = IF th[t].i + 1 = tables.ACUTE_LENGTH
                         THEN "divide" ELSE "sum"]
       IN /\ th' = [th EXCEPT ![t] = f]
          /\ log' = Logged(f)
    /\ UNCHANGED <<snapshots, end_date, normalized, timespan, pc, called, result,
                   filterArgs, clientVars, tables,
                   sessionVars>>

\* the sum over range(CHRONIC_LENGTH): only the frame's map is read
ChronicStep(t) ==
    /\ th[t].pc = "sum"
    /\ th[t].phase = "chronic"
    /\ LET f == [th[t] EXCEPT
                  !.acc = ChronicSum(th[t].workloads, th[t].end,
                                     tables.CHRONIC_LENGTH),
                  !.pc = "divide"]
       IN /\ th' = [th EXCEPT ![t] = f]
          /\ log' = Logged(f)
    /\ UNCHANGED <<snapshots, end_date, normalized, timespan, pc, called, result,
                   filterArgs, clientVars, tables,
                   sessionVars>>

\* the sum is divided; compute_acr goes on with the acute workload or returns
Divide(t) ==
    /\ th[t].pc = "divide"
    /\ LET f == LET timespan_ == th[t].end - th[t].start
                    value == IF th[t].phase = "acute"
                             THEN Rat(th[t].acc,
                                      WeightScale * _get_acute_divisor(timespan_))
                             ELSE Rat(th[t].acc, _get_chronic_divisor(timespan_))
                IN IF th[t].fn # "compute_acr" THEN Done(t, Return(value))
                   ELSE IF th[t].phase = "acute"
                   THEN Done(t, Return(Ratio(value, th[t].chronic)))
                   ELSE IF IsZero(value) THEN Done(t, Return(Zero))
                   ELSE [th[t] EXCEPT !.pc = "index", !.phase = "acute",
                                      !.chronic = value, !.i = 0, !.acc = 0,
                                      !.workloads = <<>>]
       IN /\ th' = [th EXCEPT ![t] = f]
          /\ log' = Logged(f)
    /\ UNCHANGED <<snapshots, end_date, normalized, timespan, pc, called, result,
                   filterArgs, clientVars, tables,
                   sessionVars>>

\* a filter looks at the next event
FilterStep(t) ==
    /\ th[t].pc = "scan"
    /\ th[t].fn \in FilterFns
    /\ th[t].i < Len(events)
    /\ LET f == LET event == events[th[t].i + 1]
                    l == IF IsStr(tags) THEN PyList(<<tags>>) ELSE tags
                    keep ==
                        CASE th[t].fn = "filter_by_tag" ->
                               In(EventGet(event, "tag"), l) # th[t].flag
                          [] th[t].fn = "filter_simulated" ->
                               EventGet(event, "simulated") = PyBool(th[t].flag)
                          [] th[t].fn = "filter_high_effort" ->
                               EventGet(event, "highEffort") = PyBool(th[t].flag)
                IN IF th[t].fn = "filter_by_tag" /\ l = None
                   THEN Done(t, Raise("TypeError", MsgNotIterable))
                   ELSE [th[t] EXCEPT
                           !.out = IF keep THEN Append(@, event) ELSE @,
                           !.i = @ + 1]
       IN /\ th' = [th EXCEPT ![t] = f]
          /\ log' = Logged(f)
    /\ UNCHANGED <<snapshots, end_date, normalized, timespan, pc, called, result,
                   filterArgs, clientVars, tables,
                   sessionVars>>

\* variant: the workload is taken out of the event (dict.pop, leaving 0)
SumStepClearsEvent(t) ==
    /\ th[t].pc = "scan"
    /\ th[t].fn = "sum_workload"
    /\ th[t].i < Len(events)
    /\ LET f == LET event == events[th[t].i + 1] IN
                [th[t] EXCEPT
                   !.acc = @ + (IF th[t].flag THEN event.normalizedWorkload
                                ELSE event.workload),
                   !.i = @ + 1]
       IN /\ th' = [th EXCEPT ![t] = f]
          /\ log' = Logged(f)
    /\ events' = [events EXCEPT ![th[t].i + 1] =
                    [@ EXCEPT !.workload = 0, !.normalizedWorkload = 0]]
    /\ UNCHANGED <<snapshots, end_date, normalized, timespan, pc, called, result,
                   tags, flag, clientVars, tables,
                   sessionVars>>

\* sum_workload adds the next event's workload
SumStep(t) ==
    /\ th[t].pc = "scan"
    /\ th[t].fn = "sum_workload"
    /\ th[t].i < Len(events)
    /\ LET f == LET event == events[th[t].i + 1] IN
                [th[t] EXCEPT
                   !.acc = @ + (IF th[t].flag THEN event.normalizedWorkload
                                ELSE event.workload),
                   !.i = @ + 1]
       IN /\ th' = [th EXCEPT ![t] = f]
          /\ log' = Logged(f)
    /\ UNCHANGED <<snapshots, end_date, normalized, timespan, pc, called, result,
                   filterArgs, clientVars, tables,
                   sessionVars>>

\* the filtered list, or the sum, is returned
ScanReturn(t) ==
    /\ th[t].pc = "scan"
    /\ th[t].i = Len(events)
    /\ LET f == Done(t, IF th[t].fn = "sum_workload"
                        THEN Return(Rat(th[t].acc, 1))
                        ELSE Return(th[t].out))
       IN /\ th' = [th EXCEPT ![t] = f]
          /\ log' = Logged(f)
    /\ UNCHANGED <<snapshots, end_date, normalized, timespan, pc, called, result,
                   filterArgs, clientVars, tables,
                   sessionVars>>

NextCalls ==
    \E t \in Threads :
        \/ Start(t)
        \/ IndexStep(t)
        \/ BoundsStep(t)
        \/ AcuteStep(t)
        \/ ChronicStep(t)
        \/ Divide(t)
        \/ FilterStep(t)
        \/ SumStep(t)
        \/ ScanReturn(t)

SpecThreads == InitThreads /\ [][NextCalls]_vars

SpecCalls == InitCalls /\ [][NextCalls]_vars

TypeOK ==
    /\ pc \in {"ready", "done"}
    /\ result.status \in {"none", "return", "raise"}
    /\ result.value.den > 0

(***************************************************************************)
(* Vocabulary of the properties: the inputs of the call as the caller sees *)
(* them.                                                                   *)
(***************************************************************************)
WorkloadFns ==
    {"compute_acute_workload", "compute_chronic_workload", "compute_acr"}

Answered(fn) == pc = "done" /\ called = fn

\* a non-empty snapshot list whose dates all parse
ValidHistory == snapshots # <<>> /\ SnapshotDatesParse(snapshots)

\* no end_date, or one that parses
ValidEnd == end_date = None \/ ValidIso(end_date)

ExplicitEnd == end_date # None /\ ValidIso(end_date)

SnapshotDays == {fromisoformat(snapshots[i].date) : i \in 1..Len(snapshots)}

Earliest == min(SnapshotDays)

Latest == max(SnapshotDays)

\* the reference date of the call: end_date, or the latest snapshot date
Reference == IF end_date = None THEN Latest ELSE fromisoformat(end_date)

IsRangeError(r) ==
    r.status = "raise" /\ r.exc = "ValueError" /\ r.msg = MsgRange

ReturnsZero(r) == r.status = "return" /\ r.value.num = 0

\* the daily workload of a calendar day as the snapshot list gives it, 0 for
\* a day without a record
DayWorkload(day) ==
    LET recs == {i \in 1..Len(snapshots) : fromisoformat(snapshots[i].date) = day}
    IN IF recs = {} THEN 0
       ELSE LET r == snapshots[max(recs)]
            IN IF normalized THEN r.normDailyWorkload ELSE r.dailyWorkload

\* f[0] + ... + f[n]
RECURSIVE SumOver(_, _)
SumOver(f, n) == IF n < 0 THEN 0 ELSE f[n] + SumOver(f, n - 1)

\* the outcome of the workload function fn on other arguments
Outcome(fn, snaps, endStr, norm) ==
    CASE fn = "compute_acute_workload" -> compute_acute_workload(snaps, endStr, norm)
      [] fn = "compute_chronic_workload" -> compute_chronic_workload(snaps, endStr, norm)
      [] fn = "compute_acr" -> compute_acr(snaps, endStr, norm)

(***************************************************************************)
(* C1                                                                      *)
(***************************************************************************)
\* C1: for a non-empty snapshot set and a reference date (explicit end_date
\* or the implicit latest snapshot date), compute_acute_workload,
\* compute_chronic_workload and compute_acr raise the range error
\* (ValueError) exactly when the earliest snapshot date is strictly after
\* the reference date; otherwise (earliest = reference included) they
\* return a value.
C1_RangeErrorIffStartAfterEnd ==
    \A fn \in WorkloadFns :
        (Answered(fn) /\ ValidHistory /\ ValidEnd) =>
            IF Earliest > Reference
            THEN IsRangeError(result)
            ELSE result.status = "return"

\* compute_acr has raised the range error for an end_date one day before the
\* earliest snapshot
C1_Witness ==
    /\ Answered("compute_acr") /\ ValidHistory /\ ExplicitEnd
    /\ Earliest = Reference + 1
    /\ IsRangeError(result)

(***************************************************************************)
(* C2, C3                                                                  *)
(***************************************************************************)
\* C2: for every non-negative integer span s, _get_acute_divisor(s) is
\* s + 3 when s < 6 and 9 when s >= 6.
C2_AcuteDivisor ==
    Answered("_get_acute_divisor") =>
        /\ result.status = "return"
        /\ result.value.den = 1
        /\ result.value.num = (IF timespan < 6 THEN timespan + 3 ELSE 9)

\* _get_acute_divisor has answered 8 for the last span below the cap
C2_Witness ==
    Answered("_get_acute_divisor") /\ timespan = 5 /\ result.value.num = 8

\* C3: for every non-negative integer span s, _get_chronic_divisor(s) is
\* s + 5 when s < 23 and 28 when s >= 23.
C3_ChronicDivisor ==
    Answered("_get_chronic_divisor") =>
        /\ result.status = "return"
        /\ result.value.den = 1
        /\ result.value.num = (IF timespan < 23 THEN timespan + 5 ELSE 28)

\* _get_chronic_divisor has answered 27 for the last span below the cap
C3_Witness ==
    Answered("_get_chronic_divisor") /\ timespan = 22 /\ result.value.num = 27

(***************************************************************************)
(* C4, C5                                                                  *)
(***************************************************************************)
\* the divisors as the methodology states them
AcuteDivisorOf(span) == IF span < 6 THEN span + 3 ELSE 9

ChronicDivisorOf(span) == IF span < 23 THEN span + 5 ELSE 28

\* weight[offset] = 1.3 - 0.075 * offset, in fortieths: 1.3 = 52/40 and
\* 0.075 = 3/40
WeightOf(offset) == 52 - 3 * offset

\* the weighted sum over the 9 days ending at end, in fortieths
WeightedWindow(end) ==
    LET f == [o \in 0..8 |-> DayWorkload(end - o) * WeightOf(o)]
    IN SumOver(f, 8)

\* the flat sum over the 28 days ending at end
FlatWindow(end) ==
    LET f == [o \in 0..27 |-> DayWorkload(end - o)] IN SumOver(f, 27)

\* C4: for a snapshot set with earliest date start and a reference date
\* end >= start, compute_acute_workload returns the sum over offset 0..8 of
\* (workload on day end - offset, 0 for a day without snapshot) times
\* weight[offset], divided by D_a(end - start), offset 0 being end itself.
C4_AcuteFormula ==
    (Answered("compute_acute_workload") /\ ValidHistory /\ ValidEnd
        /\ Earliest <= Reference) =>
        /\ result.status = "return"
        /\ result.value.den > 0
        /\ result.value.num * (40 * AcuteDivisorOf(Reference - Earliest))
             = WeightedWindow(Reference) * result.value.den

\* compute_acute_workload has returned a non-zero value made of two days of
\* the window, three days after the first snapshot
C4_Witness ==
    /\ Answered("compute_acute_workload") /\ ValidHistory /\ ExplicitEnd
    /\ Reference - Earliest = 3
    /\ Cardinality({d \in SnapshotDays : DayWorkload(d) > 0}) = 2
    /\ result.status = "return" /\ result.value.num > 0

\* C5: for a snapshot set with earliest date start and a reference date
\* end >= start, compute_chronic_workload returns the unweighted sum over
\* offset 0..27 of the workload on day end - offset (0 for a day without
\* snapshot), divided by D_c(end - start).
C5_ChronicFormula ==
    (Answered("compute_chronic_workload") /\ ValidHistory /\ ValidEnd
        /\ Earliest <= Reference) =>
        /\ result.status = "return"
        /\ result.value.den > 0
        /\ result.value.num * ChronicDivisorOf(Reference - Earliest)
             = FlatWindow(Reference) * result.value.den

\* compute_chronic_workload has returned a non-zero value for a window whose
\* last day (offset 27) is the only day with workload
C5_Witness ==
    /\ Answered("compute_chronic_workload") /\ ValidHistory /\ ExplicitEnd
    /\ Reference - Latest = 27
    /\ result.status = "return" /\ result.value.num > 0

(***************************************************************************)
(* C6                                                                      *)
(***************************************************************************)
\* C6: for a valid (non-error) reference date, compute_acr returns 0.0 when
\* compute_chronic_workload of the same inputs is 0.0 and otherwise
\* compute_acute_workload divided by compute_chronic_workload of the same
\* inputs; it never divides by zero.
C6_RatioDefinition ==
    (Answered("compute_acr") /\ ValidHistory /\ ValidEnd
        /\ Earliest <= Reference) =>
        LET chronic == compute_chronic_workload(snapshots, end_date, normalized)
            acute == compute_acute_workload(snapshots, end_date, normalized)
        IN /\ result.status = "return"
           /\ result.value.den # 0
           /\ IF chronic.value.num = 0
              THEN result.value.num = 0
              ELSE result.value.num * (acute.value.den * chronic.value.num)
                     = (acute.value.num * chronic.value.den) * result.value.den

\* compute_acr has returned a non-zero ratio
C6_Witness ==
    /\ Answered("compute_acr") /\ ValidHistory /\ ValidEnd
    /\ result.status = "return" /\ result.value.num > 0

(***************************************************************************)
(* C7                                                                      *)
(***************************************************************************)
\* C7: for a non-empty snapshot set, a reference date at least 9 days after
\* the latest snapshot date makes compute_acute_workload return 0.0, and
\* one at least 28 days after it makes compute_chronic_workload and
\* compute_acr return 0.0; none of them raises an error.
C7_FarAfterIsZero ==
    (pc = "done" /\ ValidHistory /\ ExplicitEnd) =>
        /\ (called = "compute_acute_workload" /\ Reference >= Latest + 9)
              => ReturnsZero(result)
        /\ (called \in {"compute_chronic_workload", "compute_acr"}
              /\ Reference >= Latest + 28)
              => ReturnsZero(result)

\* compute_chronic_workload has returned 0.0 for an end_date exactly 28 days
\* after the latest snapshot, whose workload is not 0
C7_Witness ==
    /\ Answered("compute_chronic_workload") /\ ValidHistory /\ ExplicitEnd
    /\ Reference = Latest + 28
    /\ DayWorkload(Latest) > 0
    /\ ReturnsZero(result)

(***************************************************************************)
(* C8                                                                      *)
(***************************************************************************)
\* C8 as stated: if the reference date end predates every date of the
\* workload map by more than 8 days, compute_acute_workload returns 0.0
\* rather than an error.
C8_BeforeAllDataIsZero ==
    (Answered("compute_acute_workload") /\ ValidHistory /\ ExplicitEnd
        /\ \A d \in SnapshotDays : d - Reference > 8) =>
        ReturnsZero(result)

\* C8 amended: if the reference date end predates every date of the workload
\* map (by more than 8 days or by less), compute_acute_workload and
\* compute_chronic_workload raise the range error instead of returning 0.0;
\* they return 0.0 for an end without data in its window (the 9 days,
\* respectively the 28 days, ending at end) only when end is not before the
\* earliest date.
C8_BeforeAllDataRaises ==
    (pc = "done" /\ ValidHistory /\ ExplicitEnd
        /\ called \in {"compute_acute_workload", "compute_chronic_workload"}) =>
        LET length == IF called = "compute_acute_workload" THEN 9 ELSE 28
            window == (Reference - (length - 1))..Reference
        IN /\ (\A d \in SnapshotDays : d > Reference) => IsRangeError(result)
           /\ (Earliest <= Reference /\ SnapshotDays \cap window = {})
                => ReturnsZero(result)
           /\ (ReturnsZero(result) /\ SnapshotDays \cap window = {})
                => Earliest <= Reference

\* compute_acute_workload has raised the range error for an end_date 9 days
\* before the earliest snapshot
C8_Witness ==
    /\ Answered("compute_acute_workload") /\ ValidHistory /\ ExplicitEnd
    /\ Earliest - Reference = 9
    /\ IsRangeError(result)

(***************************************************************************)
(* C9                                                                      *)
(***************************************************************************)
\* the date strings of the snapshots of the latest day
LatestDateStrings ==
    {snapshots[i].date : i \in {j \in 1..Len(snapshots) :
                                  fromisoformat(snapshots[j].date) = Latest}}

\* C9: for a non-empty snapshot set, compute_acute_workload,
\* compute_chronic_workload and compute_acr called without end_date give the
\* result of the call with end_date equal to the latest date of the
\* snapshots.
C9_DefaultReferenceDate ==
    \A fn \in WorkloadFns :
        (Answered(fn) /\ ValidHistory /\ end_date = None) =>
            \A latest \in LatestDateStrings :
                LET explicit == Outcome(fn, snapshots, latest, normalized)
                IN /\ result.status = "return"
                   /\ explicit.status = "return"
                   /\ RatEq(result.value, explicit.value)

\* compute_acute_workload has answered without end_date for snapshots of two
\* different days, both with workload
C9_Witness ==
    /\ Answered("compute_acute_workload") /\ ValidHistory /\ end_date = None
    /\ Earliest < Latest
    /\ DayWorkload(Earliest) > 0 /\ DayWorkload(Latest) > 0
    /\ result.status = "return" /\ result.value.num > 0

(***************************************************************************)
(* C10                                                                     *)
(***************************************************************************)
\* the calendar days later than the earliest snapshot that have no snapshot
AbsentDays ==
    {s \in SnapshotDates :
        /\ ValidIso(s)
        /\ fromisoformat(s) > Earliest
        /\ fromisoformat(s) \notin SnapshotDays}

ZeroDay(s) == [date |-> s, dailyWorkload |-> 0, normDailyWorkload |-> 0]

\* the snapshot list with a record put in first or last
EndsOf(snaps) == {1, Len(snaps) + 1}

\* the snapshot list with record r put in at position k
InsertAt(snaps, k, r) ==
    SubSeq(snaps, 1, k - 1) \o <<r>> \o SubSeq(snaps, k, Len(snaps))

\* C10: for an explicit reference date end and a calendar date d later than
\* the earliest snapshot date, compute_acute_workload and
\* compute_chronic_workload return the same value whether d is absent from
\* the snapshots or present with daily workload 0; an absent day inside the
\* window causes no error.
C10_MissingDayIsZeroDay ==
    \A fn \in {"compute_acute_workload", "compute_chronic_workload"} :
        (Answered(fn) /\ ValidHistory /\ ExplicitEnd) =>
            /\ Reference >= Earliest => result.status = "return"
            /\ \A s \in AbsentDays : \A k \in EndsOf(snapshots) :
                  LET inserted == InsertAt(snapshots, k, ZeroDay(s))
                      present == Outcome(fn, inserted, end_date, normalized)
                  IN /\ result.status = present.status
                     /\ result.msg = present.msg
                     /\ RatEq(result.value, present.value)

\* compute_chronic_workload has returned a non-zero value for a window that
\* holds a day without snapshot between two days with snapshots
C10_Witness ==
    /\ Answered("compute_chronic_workload") /\ ValidHistory /\ ExplicitEnd
    /\ \E s \in AbsentDays :
          /\ fromisoformat(s) < Latest
          /\ fromisoformat(s) > Reference - 28
    /\ Reference >= Latest
    /\ result.status = "return" /\ result.value.num > 0

(***************************************************************************)
(* C12, C13                                                                *)
(***************************************************************************)
IsParseError(r) ==
    r.status = "raise" /\ r.exc = "ValueError" /\ r.msg = MsgParse

\* C12: compute_acute_workload, compute_chronic_workload and compute_acr
\* fail with a parse error, and return no value, whenever a date string they
\* are given (a snapshot record's date or the end_date argument) is not a
\* valid ISO-8601 calendar date. Stated for a non-empty history; the code
\* answers the end_date "" as if no end_date were given.
C12_ParseErrorOnAnyBadString ==
    \A fn \in WorkloadFns :
        (Answered(fn) /\ snapshots # <<>>
            /\ (~SnapshotDatesParse(snapshots)
                  \/ (end_date # None /\ ~ValidIso(end_date)))) =>
            IsParseError(result)

\* C13: with an empty snapshot sequence compute_acute_workload,
\* compute_chronic_workload and compute_acr, with or without end_date, fail
\* with an error (ValueError) instead of returning a default value.
C13_EmptyHistoryRaises ==
    \A fn \in WorkloadFns :
        (Answered(fn) /\ snapshots = <<>>) =>
            /\ result.status = "raise"
            /\ result.exc = "ValueError"

\* compute_acr has raised on an empty history with an explicit end_date
C13_Witness ==
    /\ Answered("compute_acr") /\ snapshots = <<>> /\ ExplicitEnd
    /\ result.status = "raise" /\ result.msg = MsgEmpty

(***************************************************************************)
(* C11                                                                     *)
(***************************************************************************)
\* record i is the first record of its calendar date
FirstOfDate(snaps, i) == \A j \in 1..(i - 1) : snaps[j].date # snaps[i].date

\* record i is the last record of its calendar date
LastOfDate(snaps, i) ==
    \A j \in (i + 1)..Len(snaps) : snaps[j].date # snaps[i].date

\* the dates of the records, each once, in the order of first appearance
RECURSIVE DatesInOrder(_, _)
DatesInOrder(snaps, n) ==
    IF n = 0 THEN <<>>
    ELSE IF FirstOfDate(snaps, n)
         THEN Append(DatesInOrder(snaps, n - 1), fromisoformat(snaps[n].date))
         ELSE DatesInOrder(snaps, n - 1)

\* the keys of the returned map are the calendar dates of the records, one
\* key per date, in input order
KeysAreDatesInOrder ==
    LET want == DatesInOrder(snapshots, Len(snapshots)) IN
    /\ Len(result.value) = Len(want)
    /\ \A k \in 1..Len(want) : result.value[k].key = want[k]

Indexed ==
    /\ Answered("_get_workloads_by_date")
    /\ SnapshotDatesParse(snapshots)

\* the chosen scalar: normDailyWorkload if normalized, else dailyWorkload
Scalar(snapshot) ==
    IF normalized THEN snapshot.normDailyWorkload ELSE snapshot.dailyWorkload

\* C11 as stated: for every sequence of snapshot records the map has one key
\* per calendar date, in input order, and every record's date maps to that
\* record's chosen scalar.
C11_EveryRecordIndexed ==
    Indexed =>
        /\ result.status = "return"
        /\ KeysAreDatesInOrder
        /\ \A i \in 1..Len(snapshots) :
              DictGet(result.value, fromisoformat(snapshots[i].date), None)
                  = Scalar(snapshots[i])

\* C11 amended: one key per calendar date, in the order of first appearance;
\* a date maps to the chosen scalar of the LAST record carrying it (so of
\* its only record when no date is repeated).
C11_LastRecordIndexed ==
    Indexed =>
        /\ result.status = "return"
        /\ KeysAreDatesInOrder
        /\ \A i \in 1..Len(snapshots) :
              LastOfDate(snapshots, i) =>
                  DictGet(result.value, fromisoformat(snapshots[i].date), None)
                      = Scalar(snapshots[i])

\* a date carried by two records with different scalars, a second date in
\* between, has been indexed
C11_Witness ==
    /\ Indexed
    /\ Len(snapshots) = 3
    /\ snapshots[1].date = snapshots[3].date
    /\ snapshots[1].date # snapshots[2].date
    /\ Scalar(snapshots[1]) # Scalar(snapshots[3])
    /\ Len(result.value) = 2

(***************************************************************************)
(* C14, C15, C16                                                           *)
(***************************************************************************)
\* how often the event e occurs in the list evs
Count(evs, e) == Cardinality({i \in 1..Len(evs) : evs[i] = e})

\* the tags the argument stands for: a str is the single tag, a list its
\* elements
TagSet ==
    IF IsStr(tags) THEN {tags} ELSE {tags[2][i] : i \in 1..Len(tags[2])}

\* the tag of an event; an absent or null tag is None
TagOf(e) == IF e.tag \in {Absent, None} THEN None ELSE e.tag

\* the event carries no tag: the field is absent or null
Untagged(e) == e.tag \in {Absent, None}

\* C14: for every event list (events with absent or null tag included) and
\* every tag set, the whitelist and the blacklist result of filter_by_tag
\* are disjoint and together hold every event of the list exactly once;
\* every whitelisted event has its tag in tags, every blacklisted one not.
C14_TagFilterPartition ==
    (Answered("filter_by_tag") /\ tags # None) =>
        LET other == filter_by_tag(events, tags, ~flag)
            white == IF flag THEN other.value ELSE result.value
            black == IF flag THEN result.value ELSE other.value
        IN /\ result.status = "return"
           /\ other.status = "return"
           /\ \A i \in 1..Len(events) :
                 /\ Count(white, events[i]) + Count(black, events[i])
                        = Count(events, events[i])
                 /\ Count(white, events[i]) = 0 \/ Count(black, events[i]) = 0
           /\ Len(white) + Len(black) = Len(events)
           /\ \A i \in 1..Len(white) : TagOf(white[i]) \in TagSet
           /\ \A i \in 1..Len(black) : TagOf(black[i]) \notin TagSet

\* a blacklist call has kept an event without the tag key and dropped a
\* tagged one
C14_Witness ==
    /\ Answered("filter_by_tag") /\ flag /\ tags = PyStr("Plyo")
    /\ Len(events) = 2 /\ Len(result.value) = 1
    /\ result.value[1].tag = Absent

\* C15: filter_by_tag with the tag None, in whitelist mode, returns exactly
\* the untagged events (tag absent or null) and raises no error. The tag
\* None is given as None or as the list [None].
C15_TagNoneSelectsUntagged ==
    (Answered("filter_by_tag") /\ ~flag /\ tags \in {None, PyList(<<None>>)}) =>
        /\ result.status = "return"
        /\ result.value = SelectSeq(events, Untagged)

\* the events whose field is the boolean b
FieldIs(evs, field, b) ==
    LET Is(e) == e[field] = PyBool(b) IN SelectSeq(evs, Is)

\* C16: filter_simulated(events, b) returns exactly the events whose
\* simulated field is the boolean b, filter_high_effort(events, b) those
\* whose highEffort field is b; an event whose field is absent or null is in
\* neither the True nor the False result.
C16_FlagFilters ==
    /\ Answered("filter_simulated") =>
          /\ result = Return(FieldIs(events, "simulated", flag))
          /\ \A i \in 1..Len(result.value) :
                result.value[i].simulated \notin {Absent, None}
    /\ Answered("filter_high_effort") =>
          /\ result = Return(FieldIs(events, "highEffort", flag))
          /\ \A i \in 1..Len(result.value) :
                result.value[i].highEffort \notin {Absent, None}

\* filter_simulated(events, False) has dropped an event without the field
\* and one whose field is null
C16_Witness ==
    /\ Answered("filter_simulated") /\ ~flag
    /\ Len(events) = 2
    /\ events[1].simulated = Absent /\ events[2].simulated = None
    /\ result.value = <<>>

(***************************************************************************)
(* C19, C20                                                                *)
(***************************************************************************)
\* a date argument is absent (None) or a valid ISO string
AbsentOrValid(s) == s = None \/ ValidIso(s)

\* the end of the requested range: the current date if end_date is absent
RangeEnd == IF end_date = None THEN today ELSE fromisoformat(end_date)

\* its start: 8 days before the end if start_date is absent
RangeStart == IF start_date = None THEN RangeEnd - 8 ELSE fromisoformat(start_date)

\* C19: _format_dates returns the pair (start, end), an absent end date
\* replaced by the current date and an absent start date by 8 days before
\* the (possibly defaulted) end date; it raises ValueError if and only if
\* start > end (start = end is accepted); every returned pair has
\* start <= end. Stated for date arguments that are absent or valid.
C19_FormatDates ==
    (Answered("_format_dates")
        /\ AbsentOrValid(start_date) /\ AbsentOrValid(end_date)) =>
        /\ (result.status = "raise") <=> (RangeStart > RangeEnd)
        /\ result.status = "raise" => result.exc = "ValueError"
        /\ result.status = "return" =>
              /\ ValidIso(result.value[1]) /\ ValidIso(result.value[2])
              /\ fromisoformat(result.value[1]) = RangeStart
              /\ fromisoformat(result.value[2]) = RangeEnd
              /\ fromisoformat(result.value[1]) <= fromisoformat(result.value[2])

\* both dates absent: the pair returned starts in the month before today's
C19_Witness ==
    /\ Answered("_format_dates")
    /\ start_date = None /\ end_date = None
    /\ result.status = "return"
    /\ result.value[1][2] # result.value[2][2]

ApiRequests == {"get_profile", "get_team", "get_snapshots", "get_events"}

\* the client was constructed with authenticate=False and authenticate() was
\* not called since
NeverAuthenticated == auth_calls = 0

\* the last call was an API request, its dates (if it takes any) a valid
\* range
ValidRequest ==
    /\ pc = "done"
    /\ called \in ApiRequests
    /\ called \in {"get_snapshots", "get_events"} =>
          /\ AbsentOrValid(start_date) /\ AbsentOrValid(end_date)
          /\ RangeStart <= RangeEnd

\* C20: on a PulseClient that was never authenticated every API request
\* (get_profile, get_team, get_snapshots, get_events with valid dates)
\* raises MissingTokenError and returns no data.
C20_UnauthenticatedRequest ==
    (NeverAuthenticated /\ ValidRequest) =>
        /\ result.status = "raise"
        /\ result.exc = "MissingTokenError"

\* get_snapshots with a valid range has been refused on a fresh client
C20_Witness ==
    /\ NeverAuthenticated
    /\ Answered("get_snapshots")
    /\ start_date = FirstDate /\ end_date = None
    /\ result.exc = "MissingTokenError"

(***************************************************************************)
(* C17, C18                                                                *)
(***************************************************************************)
\* the outcome of the call when nothing else runs
Alone(fn, endStr, b) ==
    CASE fn = "compute_acute_workload" ->
           compute_acute_workload(snapshots, endStr, b)
      [] fn = "compute_chronic_workload" ->
           compute_chronic_workload(snapshots, endStr, b)
      [] fn = "compute_acr" -> compute_acr(snapshots, endStr, b)
      [] fn = "sum_workload" -> sum_workload(events, b)
      [] fn = "filter_by_tag" -> filter_by_tag(events, tags, b)
      [] fn = "filter_simulated" -> filter_simulated(events, b)
      [] fn = "filter_high_effort" -> filter_high_effort(events, b)

\* two outcomes are the same return value or the same error
SameOutcome(a, b) ==
    /\ a.status = b.status
    /\ a.exc = b.exc
    /\ a.msg = b.msg
    /\ a.status = "return" => a.value = b.value

\* two completed calls of a workload function with identical inputs have
\* identical results
LogAgrees ==
    \A j, k \in 1..Len(log) :
        (/\ log[j].fn \in ComputeFns \cup {"sum_workload"}
         /\ log[j].fn = log[k].fn
         /\ log[j].end_date = log[k].end_date
         /\ log[j].flag = log[k].flag) =>
            SameOutcome(log[j].result, log[k].result)

\* a step leaves the constant tables and the input records as they are
InputsUntouched ==
    /\ tables' = tables
    /\ snapshots' = snapshots
    /\ events' = events
    /\ tags' = tags

\* C17: calling a workload function (compute_acute_workload,
\* compute_chronic_workload, compute_acr, sum_workload) twice with identical
\* inputs, with any other calls in between, yields identical results; no
\* call changes the constant tables or the input records.
C17_Deterministic == [](LogAgrees) /\ [][InputsUntouched]_vars

\* compute_acr or sum_workload has been called twice with the same inputs,
\* a call of another function in between, and has returned the same value
C17_Witness ==
    /\ Len(log) = 3
    /\ log[1].fn \in {"compute_acr", "sum_workload"}
    /\ log[3].fn = log[1].fn
    /\ log[3].end_date = log[1].end_date
    /\ log[3].flag = log[1].flag
    /\ log[2].fn # log[1].fn
    /\ log[1].result.status = "return"
    /\ SameOutcome(log[1].result, log[3].result)

\* C18: in any interleaving of concurrent calls to the core functions
\* (filters, sum_workload, compute_acute_workload, compute_chronic_workload,
\* compute_acr) from several threads, each call has the result it has when
\* run alone.
C18_ConcurrentAsAlone ==
    \A t \in Threads :
        th[t].pc = "done" =>
            SameOutcome(th[t].result,
                        Alone(th[t].fn, th[t].end_date, th[t].flag))

\* a compute_acute_workload call has returned while another thread was in
\* the middle of its own weighted sum
C18_Witness ==
    \E t, u \in Threads :
        /\ t # u
        /\ th[t].pc = "done" /\ th[t].overlapped
        /\ th[t].fn = "compute_acute_workload"
        /\ th[t].result.status = "return"
        /\ th[u].fn = "compute_acute_workload"
        /\ th[u].pc = "sum" /\ th[u].i > 0

(***************************************************************************)
(* C23                                                                     *)
(***************************************************************************)
\* the span the code hands to the divisor function: end - start in days,
\* end being the latest snapshot date when end_date is None or ""
DivisionSpan ==
    (IF Truthy(end_date) THEN fromisoformat(end_date) ELSE Latest) - Earliest

\* C23: on every path of compute_acute_workload and compute_chronic_workload
\* that reaches the division the span end - start is a non-negative number of
\* days, so the acute divisor lies in 3..9 and the chronic divisor in 5..28,
\* never zero or negative; both divisors are non-decreasing in the span.
C23_NoDivisionByZero ==
    /\ (Answered("compute_acute_workload") /\ result.status = "return") =>
          /\ DivisionSpan >= 0
          /\ result.value.den = WeightScale * AcuteDivisorOf(DivisionSpan)
          /\ result.value.den \in {WeightScale * d : d \in 3..9}
    /\ (Answered("compute_chronic_workload") /\ result.status = "return") =>
          /\ DivisionSpan >= 0
          /\ result.value.den = ChronicDivisorOf(DivisionSpan)
          /\ result.value.den \in 5..28
    /\ Answered("_get_acute_divisor") =>
          /\ result.value.num \in 3..9
          /\ result.value.num <= _get_acute_divisor(timespan + 1)
    /\ Answered("_get_chronic_divisor") =>
          /\ result.value.num \in 5..28
          /\ result.value.num <= _get_chronic_divisor(timespan + 1)

\* compute_acute_workload has divided for a history of one day (a span of 0)
C23_Witness ==
    /\ Answered("compute_acute_workload") /\ result.status = "return"
    /\ Len(snapshots) = 1 /\ end_date = None
    /\ result.value.den = WeightScale * 3

(***************************************************************************)
(* C24                                                                     *)
(***************************************************************************)
\* C24: for every snapshot set whose daily workloads are all non-negative
\* and every valid reference date, a chronic workload of 0 implies an acute
\* workload of 0 for the same inputs, so compute_acr returning 0.0 never
\* hides a non-zero acute workload.
C24_ZeroChronicZeroAcute ==
    (Answered("compute_acr") /\ ValidHistory /\ ValidEnd
        /\ Earliest <= Reference
        /\ \A i \in 1..Len(snapshots) : SnapshotWorkload(snapshots[i], normalized) >= 0) =>
        LET chronic == compute_chronic_workload(snapshots, end_date, normalized)
            acute == compute_acute_workload(snapshots, end_date, normalized)
        IN /\ chronic.status = "return" /\ acute.status = "return"
           /\ IsZero(chronic.value) => IsZero(acute.value)
           /\ ReturnsZero(result) => IsZero(acute.value)
           /\ ~IsZero(acute.value) => ~ReturnsZero(result)

\* compute_acr has returned 0.0 for a history with throwing in it: the
\* reference date lies beyond the chronic window
C24_Witness ==
    /\ Answered("compute_acr") /\ ValidHistory /\ ExplicitEnd
    /\ ReturnsZero(result)
    /\ \A i \in 1..Len(snapshots) : SnapshotWorkload(snapshots[i], normalized) > 0

(***************************************************************************)
(* C26                                                                     *)
(***************************************************************************)
RECURSIVE SeqSum(_, _)
SeqSum(q, n) == IF n = 0 THEN 0 ELSE SeqSum(q, n - 1) + q[n]

\* ACUTE_WEIGHTS has 9 entries, falling in steps of 0.075 (3 fortieths), and
\* they sum to 9
WeightsNormalised ==
    /\ Len(ACUTE_WEIGHTS) = 9
    /\ ACUTE_LENGTH = 9
    /\ \A k \in 1..8 : ACUTE_WEIGHTS[k] - ACUTE_WEIGHTS[k + 1] = 3
    /\ SeqSum(ACUTE_WEIGHTS, Len(ACUTE_WEIGHTS)) = 9 * 40

\* the workload every day of the history carries
UniformWorkload == SnapshotWorkload(snapshots[1], normalized)

\* every day from the earliest to the latest has a record, all with the same
\* positive workload, and the reference date is the latest day
UniformDays ==
    /\ ValidHistory /\ ValidEnd
    /\ Reference = Latest
    /\ Latest - Earliest = Len(snapshots) - 1
    /\ UniformWorkload > 0
    /\ \A i \in 1..Len(snapshots) :
          SnapshotWorkload(snapshots[i], normalized) = UniformWorkload

\* C26: ACUTE_WEIGHTS has exactly ACUTE_LENGTH (9) entries, strictly
\* decreasing in steps of 0.075, summing to exactly 9; hence with the same
\* daily workload c > 0 on every day of the window the acute workload is c
\* once the span is at least 8 days, the chronic workload is c once the span
\* is at least 27 days, and the ratio is then 1.
C26_WeightsNormalise ==
    /\ WeightsNormalised
    /\ (Answered("compute_acute_workload") /\ UniformDays
           /\ Latest - Earliest >= 8) =>
          /\ result.status = "return"
          /\ RatEq(result.value, Rat(UniformWorkload, 1))
    /\ (Answered("compute_chronic_workload") /\ UniformDays
           /\ Latest - Earliest >= 27) =>
          /\ result.status = "return"
          /\ RatEq(result.value, Rat(UniformWorkload, 1))
    /\ (Answered("compute_acr") /\ UniformDays /\ Latest - Earliest >= 27) =>
          /\ result.status = "return"
          /\ RatEq(result.value, Rat(1, 1))

\* compute_acr has returned for 28 days of the same workload
C26_Witness ==
    /\ Answered("compute_acr") /\ UniformDays
    /\ Latest - Earliest = 27
    /\ result.status = "return"

(***************************************************************************)
(* C21, C27: the authentication state of a PulseClient                     *)
(***************************************************************************)
\* what the last call of is_authenticated() or str(client) answered, if that
\* was the last call
SeenAs(auth) ==
    /\ Answered("is_authenticated") => result.value = PyBool(auth)
    /\ Answered("__str__") =>
          result.value = <<"PulseClient(",
                           IF auth THEN user_id ELSE "<Unauthenticated>", ")">>

Unauthenticated ==
    /\ ~is_authenticated(token)
    /\ user_id = ""
    /\ __str__(user_id) = <<"PulseClient(", "<Unauthenticated>", ")">>
    /\ SeenAs(FALSE)

Authenticated ==
    /\ is_authenticated(token)
    /\ user_id # ""
    /\ __str__(user_id) = <<"PulseClient(", user_id, ")">>
    /\ SeenAs(TRUE)

\* the step is a call of authenticate()
AuthenticateStep == auth_calls' = auth_calls + 1 /\ called' = "authenticate"

\* the step is a call of authenticate() that returns
AuthenticateSucceeds == AuthenticateStep /\ result'.status = "return"

\* the step is a call of authenticate() whose token fetch raises
AuthenticateFails == AuthenticateStep /\ result'.status = "raise"

\* C21: a client constructed with authenticate=False is unauthenticated
\* (is_authenticated() false, user_id empty, str(client) is
\* 'PulseClient(<Unauthenticated>)') and stays so until a call of
\* authenticate() succeeds; after a successful authenticate(), and after
\* construction with authenticate=True, is_authenticated() is true, user_id
\* is non-empty and str(client) is 'PulseClient(<user_id>)', and it stays so.
C21_AuthenticationLifecycle ==
    /\ NeverAuthenticated => Unauthenticated
    /\ ~NeverAuthenticated => Authenticated
    /\ [][/\ AuthenticateSucceeds => Authenticated'
          /\ (Unauthenticated /\ ~AuthenticateSucceeds) => Unauthenticated'
          /\ Authenticated => Authenticated']_vars

\* a client constructed unauthenticated whose first authenticate() failed
\* and whose second succeeded shows its user_id
C21_Witness ==
    /\ auth_calls = 2
    /\ Answered("__str__")
    /\ token = Token(PyStr("u1"))
    /\ result.value = <<"PulseClient(", "u1", ")">>

\* C27: across the authenticate() calls of one client, user_id is assigned
\* from the token only while it is empty; once non-empty no step changes it,
\* even if a later token carries another user_id; a failed token fetch
\* leaves user_id (and the token) as it was.
C27_UserIdSetOnce ==
    [][/\ user_id # "" => user_id' = user_id
       /\ user_id' # user_id =>
             AuthenticateSucceeds /\ user_id' = TokenUserId(token')
       /\ (AuthenticateSucceeds /\ user_id = "") =>
             user_id' = TokenUserId(token')
       /\ AuthenticateFails => user_id' = user_id /\ token' = token]_vars

\* the session holds a token without user_id, the client still has the
\* user_id of its first token
C27_Witness ==
    /\ Answered("authenticate")
    /\ result.status = "return"
    /\ token = Token(None)
    /\ user_id = "u1"

(***************************************************************************)
(* C25: requests with dates                                                *)
(***************************************************************************)
DateRequests == {"get_snapshots", "get_events"}

DateSlugs == {"user/get_snapshots", "user/get_events"}

\* C25: get_snapshots and get_events called with a start date after the end
\* date (either of them given or defaulted) raise ValueError and dispatch no
\* HTTP request, whether the client holds a token or not; every request
\* with dates that is dispatched has startDate <= endDate.
C25_ValidationPrecedesDispatch ==
    /\ (/\ pc = "done"
        /\ called \in DateRequests
        /\ AbsentOrValid(start_date) /\ AbsentOrValid(end_date)
        /\ RangeStart > RangeEnd) =>
          /\ result.status = "raise"
          /\ result.exc = "ValueError"
          /\ sent = <<>>
    /\ \A i \in 1..Len(sent) :
          sent[i].url_slug \in DateSlugs =>
             fromisoformat(sent[i].json.startDate)
                <= fromisoformat(sent[i].json.endDate)

\* an authenticated client refused get_events whose start date is after
\* the defaulted end date
C25_Witness ==
    /\ is_authenticated(token)
    /\ Answered("get_events")
    /\ ValidIso(start_date) /\ end_date = None
    /\ fromisoformat(start_date) > today
    /\ result.exc = "ValueError"
    /\ sent = <<>>

(***************************************************************************)
(* C22: the context manager                                                *)
(***************************************************************************)
\* C22: once __exit__ has returned, the with-block having ended normally or
\* with an exception, the client's OAuth2 session is closed.
C22_ExitClosesSession == scope \in BlockEnds => closed

====
